---- MODULE Spec2Model ----
(***************************************************************************)
(* Admin category / topic / group management page                          *)
(* (static/js/category_manage.js).                                         *)
(*                                                                         *)
(* One page session is modelled: the module-level selection variables, the *)
(* rendered rows of the three lists, the create inputs, and the requests   *)
(* whose responses are still awaited.  Every DOM event handler is one      *)
(* action up to its first await; the continuation that runs when the       *)
(* response arrives is a second action.  The server is the environment:    *)
(* every response is drawn from a small set of possible responses.         *)
(***************************************************************************)
EXTENDS Integers, Sequences, FiniteSets, TLC

(***************************************************************************)
(* Bounds of the model.                                                    *)
(***************************************************************************)
\* requests awaiting their response at the same time
MaxPending == 2
\* user events (clicks, typing) in one page session
MaxEvents == 5
\* clicks on the buttons of the status toggle
MaxClicks == 3
\* items in each preloaded array of the post form
MaxListed == 3

(***************************************************************************)
(* Values.                                                                 *)
(***************************************************************************)
\* JavaScript null for the selection ids: a value that no number equals
\* (entity ids are positive integers)
Null == -2

\* Number(v) for a number or null: Number(null) is 0
Number(v) == IF v = Null THEN 0 ELSE v

\* Strings are sequences of characters, so that trim() is computed.
EmptyStr == << >>
NameA == <<"a">>
NameB == <<"b">>
BlankStr == <<" ">>
PaddedB == <<" ", "b", " ">>

RECURSIVE TrimStart(_)
TrimStart(s) ==
    IF s = << >> THEN << >>
    ELSE IF Head(s) = " " THEN TrimStart(Tail(s)) ELSE s

RECURSIVE TrimEnd(_)
TrimEnd(s) ==
    IF s = << >> THEN << >>
    ELSE IF s[Len(s)] = " " THEN TrimEnd(SubSeq(s, 1, Len(s) - 1)) ELSE s

\* a save handler that forgets to trim the input value
TrimForgotten(s) == s

\* String.prototype.trim
Trim(s) == TrimEnd(TrimStart(s))

\* the text a template literal leaves around ${x.name} inside the span
Padded(s) == <<" ">> \o s \o <<" ">>

\* what the user may type into a text input
TypedValues == {BlankStr, PaddedB}

(***************************************************************************)
(* The entities the server knows.  A topic id names its category and a     *)
(* group id names its topic, as the foreign keys do.                       *)
(***************************************************************************)
Categories == {1, 2}
TopicIds == {10, 20}
GroupIds == {100, 200}
TopicCategory(t) == t \div 10
GroupTopic(g) == g \div 10

ServerNames == {NameA, NameB}

\* GET /admin/api/topics?category_id=c : an array of {id, name}
TopicLists(c) ==
    {<< >>} \cup
    {<<[id |-> t, name |-> n]>> :
        t \in {x \in TopicIds : TopicCategory(x) = c}, n \in ServerNames}

\* the ids loadGroups may be called with: a topic's id, null (the selection
\* was cleared before a group create was answered) and 0 (what loadGroups
\* then stored)
FetchedTopicIds == TopicIds \cup {Null, Number(Null)}

\* GET /admin/api/groups?topic_id=t : an array of {id, name}
GroupLists(t) ==
    {<< >>} \cup
    {<<[id |-> g, name |-> n]>> :
        g \in {x \in GroupIds : GroupTopic(x) = t}, n \in ServerNames}

(***************************************************************************)
(* Responses to a mutation request.  reject: the fetch promise rejects.    *)
(* Otherwise httpOk is res.ok and body is what JSON.parse makes of the     *)
(* text: "bad" (it throws), "null" (the JSON value null) or "obj" (an      *)
(* object with the fields status, message, detail; "" is an absent or      *)
(* empty field).                                                           *)
(***************************************************************************)
Rejected ==
    [reject |-> TRUE, httpOk |-> FALSE, body |-> "bad",
     status |-> "", message |-> "", detail |-> ""]

Responses ==
    {Rejected} \cup
    [reject : {FALSE}, httpOk : BOOLEAN, body : {"bad", "null"},
     status : {""}, message : {""}, detail : {""}] \cup
    [reject : {FALSE}, httpOk : BOOLEAN, body : {"obj"},
     status : {"ok", "error"}, message : {"", "msg"}, detail : {"", "det"}]

\* data.message || data.detail || fallback
MessageOf(data, fallback) ==
    IF data.message # "" THEN data.message
    ELSE IF data.detail # "" THEN data.detail
    ELSE fallback

\* !res.ok || data.status !== "ok"
IsApiError(r) == ~r.httpOk \/ r.status # "ok"

(***************************************************************************)
(* Rows.  hidden is the set of the row's elements that carry the class     *)
(* "hidden".                                                               *)
(***************************************************************************)
EditElements == {"input", "save", "cancel"}
ViewElements == {"name", "edit", "delete"}

\* a row as the template renders it (loadTopics / loadGroups)
RenderRow(item) ==
    [id |-> item.id,
     text |-> Padded(item.name),
     clickName |-> IF item.name # EmptyStr THEN item.name
                   ELSE Trim(Padded(item.name)),
     value |-> item.name,
     hidden |-> EditElements]

RECURSIVE RenderRows(_)
RenderRows(items) ==
    IF items = << >> THEN << >>
    ELSE <<RenderRow(Head(items))>> \o RenderRows(Tail(items))

\* an edit click that forgets to hide the delete button
EditRowKeepsDelete(r) ==
    [r EXCEPT !.value = Trim(r.text),
              !.hidden = (@ \cup {"name", "edit"}) \ EditElements]

\* the edit click: copy the name into the input and swap the visible elements
EditRow(r) ==
    [r EXCEPT !.value = Trim(r.text),
              !.hidden = (@ \cup ViewElements) \ EditElements]

\* resetCategoryRow / resetTopicRow / resetGroupRow
ResetRow(r) ==
    [r EXCEPT !.hidden = (@ \cup EditElements) \ ViewElements]

\* a save continuation that forgets to reset the row
RenameRowWithoutReset(r, name) == [r EXCEPT !.text = name]

\* the save continuation on success: textContent = name, then reset
RenameRow(r, name) == ResetRow([r EXCEPT !.text = name])

Visible(r, el) == el \notin r.hidden

\* document.querySelector(`.x[data-id="${id}"]`): index of the first match, 0 if none
RowIndex(rows, id) ==
    IF \E i \in 1..Len(rows) : rows[i].id = id
    THEN CHOOSE i \in 1..Len(rows) :
            rows[i].id = id /\ \A j \in 1..(i - 1) : rows[j].id # id
    ELSE 0

RECURSIVE RowIds(_)
RowIds(rows) ==
    IF rows = << >> THEN << >>
    ELSE <<Head(rows).id>> \o RowIds(Tail(rows))

RemoveAt(s, i) == SubSeq(s, 1, i - 1) \o SubSeq(s, i + 1, Len(s))

(***************************************************************************)
(* State.                                                                  *)
(***************************************************************************)
VARIABLES
    currentCategoryId, currentCategoryName,
    currentTopicId, currentTopicName,
    categoryLabel,      \* #current-category textContent
    topicLabel,         \* #current-topic textContent
    topicCreateHidden,  \* #topic-create-area has class hidden
    groupCreateHidden,  \* #group-create-area has class hidden
    categoryRows,       \* category id -> row (rendered by the server)
    topicRows,          \* #topic-list, in order
    groupRows,          \* #group-list, in order
    newCategory, newTopic, newGroup,   \* values of the create inputs
    pending,            \* handlers suspended at an await, in issue order
    topicsReturned,     \* category id -> ids of the topics the server last returned for it
    groupsReturned,     \* fetched topic id -> ids of the groups the server last returned for it
    listFetchFailed,    \* a list fetch threw (rejected, no JSON, no array) in this session
    alertMsg,           \* what the last step showed with alert(), or NoAlert
    uncaught,           \* the last step ended in an unhandled rejection
    reloaded,           \* location.reload() was called
    events              \* user events so far

\* the status toggle of a post (another page)
VARIABLES
    toggleCurrent,      \* toggleEl.dataset.current, as a number
    activeBtns,         \* the .status-btn elements that carry is-active
    statusPending,      \* click handlers suspended in updateStatus, in issue order
    statusAlert,        \* what the last step showed with alert(), or NoAlert
    statusClicks,       \* clicks on the toggle's buttons so far
    statusIssued,       \* requests issued so far
    statusLog,          \* the requests answered so far, in completion order
    initialStatus       \* dataset.current as the server rendered it

toggleVars ==
    <<toggleCurrent, activeBtns, statusPending, statusAlert, statusClicks,
      statusIssued, statusLog, initialStatus>>

\* the linked selection controls of the post form (another page)
VARIABLES
    windowTopics,       \* window.topics, the preloaded topics
    windowGroups,       \* window.groups, the preloaded groups
    elements,           \* ids of the controls getElementById finds
    selects,            \* level -> the select's options and selected index
    display,            \* control id -> style.display
    checkedRadio,       \* level -> value of the checked mode radio
    initialized         \* the script has run

filterVars ==
    <<windowTopics, windowGroups, elements, selects, display, checkedRadio,
      initialized>>

\* what the category management page does not touch
otherPages == <<toggleVars, filterVars>>

pageVars ==
    <<currentCategoryId, currentCategoryName, currentTopicId, currentTopicName,
      categoryLabel, topicLabel, topicCreateHidden, groupCreateHidden,
      categoryRows, topicRows, groupRows, newCategory, newTopic, newGroup,
      pending, topicsReturned, groupsReturned, listFetchFailed,
      alertMsg, uncaught, reloaded, events>>

vars == <<pageVars, otherPages>>

selectionVars ==
    <<currentCategoryId, currentCategoryName, currentTopicId, currentTopicName,
      categoryLabel, topicLabel, topicCreateHidden, groupCreateHidden>>

listVars == <<categoryRows, topicRows, groupRows, topicsReturned, groupsReturned>>

inputVars == <<newCategory, newTopic, newGroup>>

NoAlert == "none"

Label(kind, name) == [kind |-> kind, name |-> name]

PageInit ==
    /\ currentCategoryId = Null
    /\ currentCategoryName = EmptyStr
    /\ currentTopicId = Null
    /\ currentTopicName = EmptyStr
    /\ categoryLabel = Label("initial", EmptyStr)
    /\ topicLabel = Label("initial", EmptyStr)
    /\ topicCreateHidden = TRUE
    /\ groupCreateHidden = TRUE
    /\ categoryRows =
         [c \in Categories |->
            [id |-> c, text |-> Padded(NameA), clickName |-> Trim(Padded(NameA)),
             value |-> NameA, hidden |-> EditElements]]
    /\ topicRows = << >>
    /\ groupRows = << >>
    /\ newCategory = EmptyStr
    /\ newTopic = EmptyStr
    /\ newGroup = EmptyStr
    /\ pending = << >>
    /\ topicsReturned = [c \in Categories |-> << >>]
    /\ groupsReturned = [t \in FetchedTopicIds |-> << >>]
    /\ listFetchFailed = FALSE
    /\ alertMsg = NoAlert
    /\ uncaught = FALSE
    /\ reloaded = FALSE
    /\ events = 0

(***************************************************************************)
(* The status toggle.                                                      *)
(***************************************************************************)
STATUS_PUBLIC == 0
STATUS_PRIVATE == 1

Statuses == {STATUS_PUBLIC, STATUS_PRIVATE}
StatusButtons == {"public", "private"}

\* btn.dataset.status === "public" ? STATUS_PUBLIC : STATUS_PRIVATE
BtnStatus(btn) == IF btn = "public" THEN STATUS_PUBLIC ELSE STATUS_PRIVATE

\* nextStatus === STATUS_PUBLIC ? "public" : "private"
StatusStr(status) == IF status = STATUS_PUBLIC THEN "public" ELSE "private"

\* mutant of ApplyActiveState: is-active is added but never removed
ApplyActiveStateAddOnly(current) ==
    /\ activeBtns' = activeBtns \cup {btn \in StatusButtons : BtnStatus(btn) = current}
    /\ toggleCurrent' = current

\* applyActiveState(toggleEl, current)
ApplyActiveState(current) ==
    /\ activeBtns' = {btn \in StatusButtons : BtnStatus(btn) = current}
    /\ toggleCurrent' = current

\* the toggle as DOMContentLoaded leaves it for a post rendered with current
ToggleLoaded(current) ==
    /\ initialStatus = current
    /\ toggleCurrent = current
    /\ activeBtns = {btn \in StatusButtons : BtnStatus(btn) = current}
    /\ statusPending = << >>
    /\ statusAlert = NoAlert
    /\ statusClicks = 0
    /\ statusIssued = 0
    /\ statusLog = << >>

(***************************************************************************)
(* The linked selection controls: values.                                  *)
(***************************************************************************)
\* parseInt of a string without leading digits
NaN == -1

Digits == <<"0", "1", "2", "3", "4", "5", "6", "7", "8", "9">>

\* String(n): opt.value = t.id stores the id as a string
RECURSIVE NumberToString(_)
NumberToString(n) ==
    IF n < 10 THEN <<Digits[n + 1]>>
    ELSE NumberToString(n \div 10) \o <<Digits[(n % 10) + 1]>>

IsDigit(ch) == \E d \in 1..10 : Digits[d] = ch
DigitValue(ch) == (CHOOSE d \in 1..10 : Digits[d] = ch) - 1

\* the number the leading digits of s spell, after acc
RECURSIVE ParseDigits(_, _)
ParseDigits(s, acc) ==
    IF s = << >> \/ ~IsDigit(Head(s)) THEN acc
    ELSE ParseDigits(Tail(s), acc * 10 + DigitValue(Head(s)))

\* parseInt(s)
ParseInt(s) ==
    IF s = << >> \/ ~IsDigit(Head(s)) THEN NaN ELSE ParseDigits(s, 0)

Levels == {"category", "topic", "group"}
SelectOf(level) ==
    CASE level = "category" -> "category_select"
      [] level = "topic" -> "topic_select"
      [] level = "group" -> "group_select"
InputOf(level) ==
    CASE level = "category" -> "new_category_input"
      [] level = "topic" -> "new_topic_input"
      [] level = "group" -> "new_group_input"
AllElements == {SelectOf(l) : l \in Levels} \cup {InputOf(l) : l \in Levels}

\* a select without options
NoOptions == [options |-> << >>, selectedIndex |-> 0]

\* select.value: the value of the selected option, "" without one
ValueOf(select) ==
    IF select.selectedIndex = 0 THEN EmptyStr
    ELSE select.options[select.selectedIndex].value

\* createElement("option") with value and textContent of an item
OptionOf(item) == [value |-> NumberToString(item.id), text |-> item.name]

RECURSIVE OptionsOf(_)
OptionsOf(items) ==
    IF items = << >> THEN << >>
    ELSE <<OptionOf(Head(items))>> \o OptionsOf(Tail(items))

\* a select after its options were appended: a drop-down list selects its
\* first option
Appended(select, options) ==
    [options |-> select.options \o options,
     selectedIndex |-> IF select.selectedIndex # 0 THEN select.selectedIndex
                       ELSE IF select.options \o options = << >> THEN 0
                       ELSE 1]

\* the mode radios of a level: value "new" and the other one
RadioValues == {"existing", "new"}
NoRadio == "none"

\* style.display as the style sheet leaves it
FromCss == "css"

\* topics and groups the server may preload
TopicPool ==
    {[id |-> 10, category_id |-> 1, name |-> NameA],
     [id |-> 11, category_id |-> 1, name |-> NameB],
     [id |-> 20, category_id |-> 2, name |-> NameA]}
GroupPool ==
    {[id |-> 100, topic_id |-> 10, name |-> NameA],
     [id |-> 101, topic_id |-> 10, name |-> NameB],
     [id |-> 110, topic_id |-> 11, name |-> NameA]}

\* the arrays of at most MaxListed different items of pool, in any order
Arrays(pool) ==
    UNION {{a \in [1..n -> pool] : \A i, j \in 1..n : a[i] = a[j] => i = j} :
             n \in 0..MaxListed}

\* the options of #category_select as the server renders them
CategoryOptionLists ==
    {<< >>,
     <<[value |-> NumberToString(1), text |-> NameA],
       [value |-> NumberToString(2), text |-> NameB]>>}

\* the controls a page that includes the script may have
ElementSets == {AllElements} \cup {AllElements \ {e} : e \in AllElements}

\* a select as the server renders it, with option k selected
Rendered(options, k) == [options |-> options, selectedIndex |-> k]

\* the indexes an option list can be rendered or shown with
Selectable(options) == IF options = << >> THEN {0} ELSE 1..Len(options)

\* the page before the script runs
FilterPage(preTopics, preGroups, els, categoryOptions, c, t, radios) ==
    /\ windowTopics = preTopics
    /\ windowGroups = preGroups
    /\ elements = els
    /\ selects =
         [l \in Levels |->
            IF SelectOf(l) \notin els THEN NoOptions
            ELSE CASE l = "category" -> Rendered(categoryOptions, c)
                   [] l = "topic" -> Rendered(OptionsOf(preTopics), t)
                   [] l = "group" ->
                        Rendered(OptionsOf(preGroups),
                                 IF preGroups = << >> THEN 0 ELSE 1)]
    /\ display = [e \in AllElements |-> FromCss]
    /\ checkedRadio = radios
    /\ initialized = FALSE

\* a page of the post form with nothing preloaded
EmptyFilterPage ==
    FilterPage(<< >>, << >>, AllElements, << >>, 0, 0,
               [l \in Levels |-> NoRadio])

Init == PageInit /\ ToggleLoaded(STATUS_PUBLIC) /\ EmptyFilterPage

(***************************************************************************)
(* Steps.                                                                  *)
(***************************************************************************)
\* a user event can happen while the page is up
UserEvent ==
    /\ ~reloaded
    /\ events < MaxEvents
    /\ events' = events + 1
    /\ UNCHANGED otherPages

\* a handler that calls fetch() needs room among the awaited requests
CanFetch == Len(pending) < MaxPending

Request(kind, id, name) == [kind |-> kind, id |-> id, name |-> name]

\* the response to pending[i] arrives
Arrives(i, kind) ==
    /\ ~reloaded
    /\ i \in 1..Len(pending)
    /\ pending[i].kind = kind
    /\ events' = events
    /\ UNCHANGED otherPages

Quiet == alertMsg' = NoAlert /\ uncaught' = FALSE
Alert(msg) == alertMsg' = msg /\ uncaught' = FALSE
Throws == alertMsg' = NoAlert /\ uncaught' = TRUE

\* location.reload(): the document and every suspended handler go away
Reload ==
    /\ reloaded' = TRUE
    /\ pending' = << >>
    /\ Quiet
    /\ UNCHANGED <<selectionVars, listVars, inputVars, listFetchFailed>>

(***************************************************************************)
(* loadTopics(categoryId, categoryName), up to its await; rest is the      *)
(* sequence of requests still awaited by the others.                       *)
(***************************************************************************)
\* a loadTopics that leaves the topic selection as it is
LoadTopicsKeepingTopic(categoryId, categoryName, rest) ==
    /\ currentCategoryId' = Number(categoryId)
    /\ currentCategoryName' = categoryName
    /\ categoryLabel' = Label("category", categoryName)
    /\ topicCreateHidden' = FALSE
    /\ pending' = Append(rest, Request("topics", categoryId, categoryName))
    /\ UNCHANGED <<currentTopicId, currentTopicName, topicLabel, groupCreateHidden>>

LoadTopics(categoryId, categoryName, rest) ==
    /\ currentCategoryId' = Number(categoryId)
    /\ currentCategoryName' = categoryName
    /\ currentTopicId' = Null
    /\ currentTopicName' = EmptyStr
    /\ categoryLabel' = Label("category", categoryName)
    /\ topicCreateHidden' = FALSE
    /\ pending' = Append(rest, Request("topics", categoryId, categoryName))
    /\ UNCHANGED <<topicLabel, groupCreateHidden>>

\* loadTopics after the await: render the topic list, clear the group list
TopicsLoaded(i, topics) ==
    /\ Arrives(i, "topics")
    /\ topics \in TopicLists(pending[i].id)
    /\ topicRows' = RenderRows(topics)
    /\ groupRows' = << >>
    /\ topicLabel' = Label("prompt", EmptyStr)
    /\ groupCreateHidden' = TRUE
    /\ topicsReturned' = [topicsReturned EXCEPT ![pending[i].id] = RowIds(topics)]
    /\ UNCHANGED groupsReturned
    /\ pending' = RemoveAt(pending, i)
    /\ Quiet
    /\ UNCHANGED <<currentCategoryId, currentCategoryName, currentTopicId,
                   currentTopicName, categoryLabel, topicCreateHidden,
                   categoryRows, inputVars, listFetchFailed, reloaded>>

\* the body is JSON but no array (null, an error object): the lists are
\* cleared as for an array, then topics.forEach throws
TopicsNotArray(i) ==
    /\ Arrives(i, "topics")
    /\ topicRows' = << >>
    /\ groupRows' = << >>
    /\ topicLabel' = Label("prompt", EmptyStr)
    /\ groupCreateHidden' = TRUE
    /\ pending' = RemoveAt(pending, i)
    /\ listFetchFailed' = TRUE
    /\ Throws
    /\ UNCHANGED <<currentCategoryId, currentCategoryName, currentTopicId,
                   currentTopicName, categoryLabel, topicCreateHidden,
                   categoryRows, topicsReturned, groupsReturned, inputVars,
                   reloaded>>

\* the topics fetch rejects (or its body is no JSON): loadTopics throws
\* before it touches the lists
TopicsFetchFails(i) ==
    /\ Arrives(i, "topics")
    /\ pending' = RemoveAt(pending, i)
    /\ listFetchFailed' = TRUE
    /\ Throws
    /\ UNCHANGED <<selectionVars, listVars, inputVars, reloaded>>

(***************************************************************************)
(* How a handler classifies the response it awaited.                       *)
(*   "throw"   the handler ends in an exception nobody catches             *)
(*   "unparsed" the catch block runs: generic message                      *)
(*   "refused" the error branch runs: message || detail || generic         *)
(*   "ok"      the success path runs                                       *)
(***************************************************************************)
\* save handlers: fetch is awaited outside the try block; data.status of the
\* JSON value null is a TypeError
SaveOutcome(r) ==
    IF r.reject THEN "throw"
    ELSE IF r.body = "bad" THEN "unparsed"
    ELSE IF r.body = "null" THEN "throw"
    ELSE IF IsApiError(r) THEN "refused"
    ELSE "ok"

\* delete handlers: fetch is awaited inside the try block
DeleteOutcome(r) ==
    IF r.reject \/ r.body = "bad" THEN "unparsed"
    ELSE IF r.body = "null" THEN "throw"
    ELSE IF IsApiError(r) THEN "refused"
    ELSE "ok"

\* handleCreateTopic / handleCreateGroup: await res.json() with no try block,
\* then json.status === "ok" alone decides
CreateOutcome(r) ==
    IF r.reject \/ r.body = "bad" \/ r.body = "null" THEN "throw"
    ELSE IF r.status = "ok" THEN "ok"
    ELSE "refused"

\* json.message || fallback
CreateMessageOf(json, fallback) ==
    IF json.message # "" THEN json.message ELSE fallback

(***************************************************************************)
(* Category column.                                                        *)
(***************************************************************************)
\* click on a category name: loadTopics(id, name) with the name read when
\* the listener was attached
CategoryNameClick(c) ==
    /\ UserEvent
    /\ Visible(categoryRows[c], "name")
    /\ CanFetch
    /\ LoadTopics(c, categoryRows[c].clickName, pending)
    /\ Quiet
    /\ UNCHANGED <<listVars, inputVars, listFetchFailed, reloaded>>

CategoryEditClick(c) ==
    /\ UserEvent
    /\ Visible(categoryRows[c], "edit")
    /\ categoryRows' = [categoryRows EXCEPT ![c] = EditRow(@)]
    /\ Quiet
    /\ UNCHANGED <<selectionVars, topicRows, groupRows, topicsReturned, groupsReturned,
                   inputVars, pending, listFetchFailed, reloaded>>

CategoryCancelClick(c) ==
    /\ UserEvent
    /\ Visible(categoryRows[c], "cancel")
    /\ categoryRows' = [categoryRows EXCEPT ![c] = ResetRow(@)]
    /\ Quiet
    /\ UNCHANGED <<selectionVars, topicRows, groupRows, topicsReturned, groupsReturned,
                   inputVars, pending, listFetchFailed, reloaded>>

\* the user types into the row's edit input
CategoryType(c, v) ==
    /\ UserEvent
    /\ Visible(categoryRows[c], "input")
    /\ categoryRows[c].value # v
    /\ categoryRows' = [categoryRows EXCEPT ![c].value = v]
    /\ Quiet
    /\ UNCHANGED <<selectionVars, topicRows, groupRows, topicsReturned, groupsReturned,
                   inputVars, pending, listFetchFailed, reloaded>>

\* save click, up to the await
CategorySaveClick(c) ==
    /\ UserEvent
    /\ Visible(categoryRows[c], "save")
    /\ LET name == Trim(categoryRows[c].value) IN
         IF name = EmptyStr
         THEN /\ Alert("category_name_required")
              /\ UNCHANGED pending
         ELSE /\ CanFetch
              /\ pending' = Append(pending, Request("category_update", c, name))
              /\ Quiet
    /\ UNCHANGED <<selectionVars, listVars, inputVars, listFetchFailed, reloaded>>

\* save, after the await
CategoryUpdated(i, r) ==
    /\ Arrives(i, "category_update")
    /\ pending' = RemoveAt(pending, i)
    /\ LET id == pending[i].id
           name == pending[i].name
           outcome == SaveOutcome(r)
       IN
         /\ CASE outcome = "throw" -> Throws
              [] outcome = "unparsed" -> Alert("category_update_failed")
              [] outcome = "refused" ->
                    Alert(MessageOf(r, "category_update_failed"))
              [] OTHER -> Quiet
         /\ IF outcome = "ok"
            THEN /\ categoryRows' =
                      [categoryRows EXCEPT ![id] = RenameRow(@, name)]
                 /\ IF id = currentCategoryId
                    THEN /\ currentCategoryName' = name
                         /\ categoryLabel' = Label("category", name)
                    ELSE UNCHANGED <<currentCategoryName, categoryLabel>>
            ELSE UNCHANGED <<categoryRows, currentCategoryName, categoryLabel>>
    /\ UNCHANGED <<currentCategoryId, currentTopicId, currentTopicName,
                   topicLabel, topicCreateHidden, groupCreateHidden,
                   topicRows, groupRows, topicsReturned, groupsReturned,
                   inputVars, listFetchFailed, reloaded>>

\* delete click: confirm(), then up to the await
CategoryDeleteClick(c, confirmed) ==
    /\ UserEvent
    /\ Visible(categoryRows[c], "delete")
    /\ IF confirmed
       THEN /\ CanFetch
            /\ pending' = Append(pending, Request("category_delete", c, EmptyStr))
       ELSE UNCHANGED pending
    /\ Quiet
    /\ UNCHANGED <<selectionVars, listVars, inputVars, listFetchFailed, reloaded>>

\* delete, after the await
CategoryDeleted(i, r) ==
    /\ Arrives(i, "category_delete")
    /\ LET outcome == DeleteOutcome(r) IN
         IF outcome = "ok"
         THEN Reload
         ELSE /\ pending' = RemoveAt(pending, i)
              /\ CASE outcome = "throw" -> Throws
                   [] outcome = "unparsed" -> Alert("category_delete_failed")
                   [] OTHER -> Alert(MessageOf(r, "category_delete_failed"))
              /\ UNCHANGED <<selectionVars, listVars, inputVars,
                             listFetchFailed, reloaded>>

\* the user types into #new-category
NewCategoryType(v) ==
    /\ UserEvent
    /\ newCategory # v
    /\ newCategory' = v
    /\ Quiet
    /\ UNCHANGED <<selectionVars, listVars, newTopic, newGroup, pending,
                   listFetchFailed, reloaded>>

\* handleCreateCategory, up to the await
HandleCreateCategory ==
    /\ UserEvent
    /\ LET name == Trim(newCategory) IN
         IF name = EmptyStr
         THEN /\ Alert("category_name_required_create")
              /\ UNCHANGED pending
         ELSE /\ CanFetch
              /\ pending' = Append(pending, Request("category_create", Null, name))
              /\ Quiet
    /\ UNCHANGED <<selectionVars, listVars, inputVars, listFetchFailed, reloaded>>

\* a handleCreateCategory that reloads only on an "ok" response
CategoryCreatedInspecting(i, r) ==
    /\ Arrives(i, "category_create")
    /\ IF r.reject \/ r.body # "obj" \/ IsApiError(r)
       THEN /\ pending' = RemoveAt(pending, i)
            /\ IF r.reject THEN Throws ELSE Alert("category_create_failed")
            /\ UNCHANGED <<selectionVars, listVars, inputVars,
                           listFetchFailed, reloaded>>
       ELSE Reload

\* handleCreateCategory, after the await: the response is not looked at
CategoryCreated(i, r) ==
    /\ Arrives(i, "category_create")
    /\ IF r.reject
       THEN /\ pending' = RemoveAt(pending, i)
            /\ Throws
            /\ UNCHANGED <<selectionVars, listVars, inputVars,
                           listFetchFailed, reloaded>>
       ELSE Reload

(***************************************************************************)
(* Topic column.  A handler names its row by data-id, so it works on the   *)
(* first row of the list that carries the id.                              *)
(***************************************************************************)
\* a loadGroups that writes its label into #current-category
LoadGroupsIntoCategoryLabel(topicId, topicName, rest) ==
    /\ currentTopicId' = Number(topicId)
    /\ currentTopicName' = topicName
    /\ categoryLabel' = Label("topic", topicName)
    /\ groupCreateHidden' = FALSE
    /\ pending' = Append(rest, Request("groups", topicId, topicName))
    /\ UNCHANGED <<currentCategoryId, currentCategoryName, topicLabel,
                   topicCreateHidden>>

\* loadGroups(topicId, topicName), up to its await
LoadGroups(topicId, topicName, rest) ==
    /\ currentTopicId' = Number(topicId)
    /\ currentTopicName' = topicName
    /\ topicLabel' = Label("topic", topicName)
    /\ groupCreateHidden' = FALSE
    /\ pending' = Append(rest, Request("groups", topicId, topicName))
    /\ UNCHANGED <<currentCategoryId, currentCategoryName, categoryLabel,
                   topicCreateHidden>>

\* loadGroups after the await: render the group list
GroupsLoaded(i, groups) ==
    /\ Arrives(i, "groups")
    /\ groups \in GroupLists(pending[i].id)
    /\ groupRows' = RenderRows(groups)
    /\ groupsReturned' = [groupsReturned EXCEPT ![pending[i].id] = RowIds(groups)]
    /\ pending' = RemoveAt(pending, i)
    /\ Quiet
    /\ UNCHANGED <<selectionVars, categoryRows, topicRows, topicsReturned,
                   inputVars, listFetchFailed, reloaded>>

\* the body is JSON but no array (null, an error object): the group list is
\* cleared, then groups.forEach throws
GroupsNotArray(i) ==
    /\ Arrives(i, "groups")
    /\ groupRows' = << >>
    /\ pending' = RemoveAt(pending, i)
    /\ listFetchFailed' = TRUE
    /\ Throws
    /\ UNCHANGED <<selectionVars, categoryRows, topicRows, topicsReturned,
                   groupsReturned, inputVars, reloaded>>

\* the groups fetch rejects (or its body is no JSON): loadGroups throws
\* before it touches the list
GroupsFetchFails(i) ==
    /\ Arrives(i, "groups")
    /\ pending' = RemoveAt(pending, i)
    /\ listFetchFailed' = TRUE
    /\ Throws
    /\ UNCHANGED <<selectionVars, listVars, inputVars, reloaded>>

\* click on a topic name: loadGroups(id, name) with the name read when the
\* listener was attached
TopicNameClick(k) ==
    /\ UserEvent
    /\ k \in 1..Len(topicRows)
    /\ Visible(topicRows[k], "name")
    /\ CanFetch
    /\ LoadGroups(topicRows[k].id, topicRows[k].clickName, pending)
    /\ Quiet
    /\ UNCHANGED <<listVars, inputVars, listFetchFailed, reloaded>>

TopicEditClick(k) ==
    /\ UserEvent
    /\ k \in 1..Len(topicRows)
    /\ Visible(topicRows[k], "edit")
    /\ topicRows' =
         [topicRows EXCEPT ![RowIndex(topicRows, topicRows[k].id)] = EditRow(@)]
    /\ Quiet
    /\ UNCHANGED <<selectionVars, categoryRows, groupRows, topicsReturned,
                   groupsReturned, inputVars, pending, listFetchFailed, reloaded>>

TopicCancelClick(k) ==
    /\ UserEvent
    /\ k \in 1..Len(topicRows)
    /\ Visible(topicRows[k], "cancel")
    /\ topicRows' =
         [topicRows EXCEPT ![RowIndex(topicRows, topicRows[k].id)] = ResetRow(@)]
    /\ Quiet
    /\ UNCHANGED <<selectionVars, categoryRows, groupRows, topicsReturned,
                   groupsReturned, inputVars, pending, listFetchFailed, reloaded>>

TopicType(k, v) ==
    /\ UserEvent
    /\ k \in 1..Len(topicRows)
    /\ Visible(topicRows[k], "input")
    /\ topicRows[k].value # v
    /\ topicRows' = [topicRows EXCEPT ![k].value = v]
    /\ Quiet
    /\ UNCHANGED <<selectionVars, categoryRows, groupRows, topicsReturned,
                   groupsReturned, inputVars, pending, listFetchFailed, reloaded>>

TopicSaveClick(k) ==
    /\ UserEvent
    /\ k \in 1..Len(topicRows)
    /\ Visible(topicRows[k], "save")
    /\ LET id == topicRows[k].id
           name == Trim(topicRows[RowIndex(topicRows, id)].value)
       IN
         IF name = EmptyStr
         THEN /\ Alert("topic_name_required")
              /\ UNCHANGED pending
         ELSE /\ CanFetch
              /\ pending' = Append(pending, Request("topic_update", id, name))
              /\ Quiet
    /\ UNCHANGED <<selectionVars, listVars, inputVars, listFetchFailed, reloaded>>

TopicUpdated(i, r) ==
    /\ Arrives(i, "topic_update")
    /\ pending' = RemoveAt(pending, i)
    /\ LET id == pending[i].id
           name == pending[i].name
           outcome == SaveOutcome(r)
           row == RowIndex(topicRows, id)
       IN
         /\ CASE outcome = "throw" -> Throws
              [] outcome = "unparsed" -> Alert("topic_update_failed")
              [] outcome = "refused" -> Alert(MessageOf(r, "topic_update_failed"))
              [] outcome = "ok" /\ row = 0 -> Throws
              [] OTHER -> Quiet
         /\ IF outcome = "ok" /\ row # 0
            THEN /\ topicRows' = [topicRows EXCEPT ![row] = RenameRow(@, name)]
                 /\ IF id = currentTopicId
                    THEN /\ currentTopicName' = name
                         /\ topicLabel' = Label("topic", name)
                    ELSE UNCHANGED <<currentTopicName, topicLabel>>
            ELSE UNCHANGED <<topicRows, currentTopicName, topicLabel>>
    /\ UNCHANGED <<currentCategoryId, currentCategoryName, currentTopicId,
                   categoryLabel, topicCreateHidden, groupCreateHidden,
                   categoryRows, groupRows, topicsReturned, groupsReturned,
                   inputVars, listFetchFailed, reloaded>>

TopicDeleteClick(k, confirmed) ==
    /\ UserEvent
    /\ k \in 1..Len(topicRows)
    /\ Visible(topicRows[k], "delete")
    /\ IF confirmed
       THEN /\ CanFetch
            /\ pending' =
                 Append(pending, Request("topic_delete", topicRows[k].id, EmptyStr))
       ELSE UNCHANGED pending
    /\ Quiet
    /\ UNCHANGED <<selectionVars, listVars, inputVars, listFetchFailed, reloaded>>

TopicDeleted(i, r) ==
    /\ Arrives(i, "topic_delete")
    /\ LET outcome == DeleteOutcome(r) IN
         IF outcome = "ok" /\ currentCategoryId # Null
         THEN /\ LoadTopics(currentCategoryId, currentCategoryName,
                            RemoveAt(pending, i))
              /\ Quiet
         ELSE /\ pending' = RemoveAt(pending, i)
              /\ CASE outcome = "throw" -> Throws
                   [] outcome = "unparsed" -> Alert("topic_delete_failed")
                   [] outcome = "refused" ->
                         Alert(MessageOf(r, "topic_delete_failed"))
                   [] OTHER -> Quiet
              /\ UNCHANGED selectionVars
    /\ UNCHANGED <<listVars, inputVars, listFetchFailed, reloaded>>

NewTopicType(v) ==
    /\ UserEvent
    /\ newTopic # v
    /\ newTopic' = v
    /\ Quiet
    /\ UNCHANGED <<selectionVars, listVars, newCategory, newGroup, pending,
                   listFetchFailed, reloaded>>

\* handleCreateTopic, up to the await
HandleCreateTopic ==
    /\ UserEvent
    /\ IF currentCategoryId = Null
       THEN /\ Alert("select_category_first")
            /\ UNCHANGED pending
       ELSE LET name == Trim(newTopic) IN
              IF name = EmptyStr
              THEN /\ Alert("topic_name_required")
                   /\ UNCHANGED pending
              ELSE /\ CanFetch
                   /\ pending' =
                        Append(pending,
                               Request("topic_create", currentCategoryId, name))
                   /\ Quiet
    /\ UNCHANGED <<selectionVars, listVars, inputVars, listFetchFailed, reloaded>>

\* handleCreateTopic, after the await
TopicCreated(i, r) ==
    /\ Arrives(i, "topic_create")
    /\ LET outcome == CreateOutcome(r) IN
         IF outcome = "ok"
         THEN /\ newTopic' = EmptyStr
              /\ LoadTopics(currentCategoryId, currentCategoryName,
                            RemoveAt(pending, i))
              /\ Quiet
         ELSE /\ pending' = RemoveAt(pending, i)
              /\ IF outcome = "throw"
                 THEN Throws
                 ELSE Alert(CreateMessageOf(r, "topic_create_failed"))
              /\ UNCHANGED <<selectionVars, newTopic>>
    /\ UNCHANGED <<listVars, newCategory, newGroup, listFetchFailed, reloaded>>

(***************************************************************************)
(* Group column.                                                           *)
(***************************************************************************)
GroupEditClick(k) ==
    /\ UserEvent
    /\ k \in 1..Len(groupRows)
    /\ Visible(groupRows[k], "edit")
    /\ groupRows' =
         [groupRows EXCEPT ![RowIndex(groupRows, groupRows[k].id)] = EditRow(@)]
    /\ Quiet
    /\ UNCHANGED <<selectionVars, categoryRows, topicRows, topicsReturned,
                   groupsReturned, inputVars, pending, listFetchFailed, reloaded>>

GroupCancelClick(k) ==
    /\ UserEvent
    /\ k \in 1..Len(groupRows)
    /\ Visible(groupRows[k], "cancel")
    /\ groupRows' =
         [groupRows EXCEPT ![RowIndex(groupRows, groupRows[k].id)] = ResetRow(@)]
    /\ Quiet
    /\ UNCHANGED <<selectionVars, categoryRows, topicRows, topicsReturned,
                   groupsReturned, inputVars, pending, listFetchFailed, reloaded>>

GroupType(k, v) ==
    /\ UserEvent
    /\ k \in 1..Len(groupRows)
    /\ Visible(groupRows[k], "input")
    /\ groupRows[k].value # v
    /\ groupRows' = [groupRows EXCEPT ![k].value = v]
    /\ Quiet
    /\ UNCHANGED <<selectionVars, categoryRows, topicRows, topicsReturned,
                   groupsReturned, inputVars, pending, listFetchFailed, reloaded>>

GroupSaveClick(k) ==
    /\ UserEvent
    /\ k \in 1..Len(groupRows)
    /\ Visible(groupRows[k], "save")
    /\ LET id == groupRows[k].id
           name == Trim(groupRows[RowIndex(groupRows, id)].value)
       IN
         IF name = EmptyStr
         THEN /\ Alert("group_name_required")
              /\ UNCHANGED pending
         ELSE /\ CanFetch
              /\ pending' = Append(pending, Request("group_update", id, name))
              /\ Quiet
    /\ UNCHANGED <<selectionVars, listVars, inputVars, listFetchFailed, reloaded>>

GroupUpdated(i, r) ==
    /\ Arrives(i, "group_update")
    /\ pending' = RemoveAt(pending, i)
    /\ LET id == pending[i].id
           name == pending[i].name
           outcome == SaveOutcome(r)
           row == RowIndex(groupRows, id)
       IN
         /\ CASE outcome = "throw" -> Throws
              [] outcome = "unparsed" -> Alert("group_update_failed")
              [] outcome = "refused" -> Alert(MessageOf(r, "group_update_failed"))
              [] outcome = "ok" /\ row = 0 -> Throws
              [] OTHER -> Quiet
         /\ IF outcome = "ok" /\ row # 0
            THEN groupRows' = [groupRows EXCEPT ![row] = RenameRow(@, name)]
            ELSE UNCHANGED groupRows
    /\ UNCHANGED <<selectionVars, categoryRows, topicRows, topicsReturned,
                   groupsReturned, inputVars, listFetchFailed, reloaded>>

GroupDeleteClick(k, confirmed) ==
    /\ UserEvent
    /\ k \in 1..Len(groupRows)
    /\ Visible(groupRows[k], "delete")
    /\ IF confirmed
       THEN /\ CanFetch
            /\ pending' =
                 Append(pending, Request("group_delete", groupRows[k].id, EmptyStr))
       ELSE UNCHANGED pending
    /\ Quiet
    /\ UNCHANGED <<selectionVars, listVars, inputVars, listFetchFailed, reloaded>>

GroupDeleted(i, r) ==
    /\ Arrives(i, "group_delete")
    /\ LET outcome == DeleteOutcome(r) IN
         IF outcome = "ok" /\ currentTopicId # Null
         THEN /\ LoadGroups(currentTopicId, currentTopicName,
                            RemoveAt(pending, i))
              /\ Quiet
         ELSE /\ pending' = RemoveAt(pending, i)
              /\ CASE outcome = "throw" -> Throws
                   [] outcome = "unparsed" -> Alert("group_delete_failed")
                   [] outcome = "refused" ->
                         Alert(MessageOf(r, "group_delete_failed"))
                   [] OTHER -> Quiet
              /\ UNCHANGED selectionVars
    /\ UNCHANGED <<listVars, inputVars, listFetchFailed, reloaded>>

NewGroupType(v) ==
    /\ UserEvent
    /\ newGroup # v
    /\ newGroup' = v
    /\ Quiet
    /\ UNCHANGED <<selectionVars, listVars, newCategory, newTopic, pending,
                   listFetchFailed, reloaded>>

\* a handleCreateGroup without the check of currentTopicId
HandleCreateGroupUnguarded ==
    /\ UserEvent
    /\ LET name == Trim(newGroup) IN
         IF name = EmptyStr
         THEN /\ Alert("group_name_required")
              /\ UNCHANGED pending
         ELSE /\ CanFetch
              /\ pending' =
                   Append(pending, Request("group_create", currentTopicId, name))
              /\ Quiet
    /\ UNCHANGED <<selectionVars, listVars, inputVars, listFetchFailed, reloaded>>

\* handleCreateGroup, up to the await
HandleCreateGroup ==
    /\ UserEvent
    /\ IF currentTopicId = Null
       THEN /\ Alert("select_topic_first")
            /\ UNCHANGED pending
       ELSE LET name == Trim(newGroup) IN
              IF name = EmptyStr
              THEN /\ Alert("group_name_required")
                   /\ UNCHANGED pending
              ELSE /\ CanFetch
                   /\ pending' =
                        Append(pending,
                               Request("group_create", currentTopicId, name))
                   /\ Quiet
    /\ UNCHANGED <<selectionVars, listVars, inputVars, listFetchFailed, reloaded>>

\* handleCreateGroup, after the await
GroupCreated(i, r) ==
    /\ Arrives(i, "group_create")
    /\ LET outcome == CreateOutcome(r) IN
         IF outcome = "ok"
         THEN /\ newGroup' = EmptyStr
              /\ LoadGroups(currentTopicId, currentTopicName,
                            RemoveAt(pending, i))
              /\ Quiet
         ELSE /\ pending' = RemoveAt(pending, i)
              /\ IF outcome = "throw"
                 THEN Throws
                 ELSE Alert(CreateMessageOf(r, "group_create_failed"))
              /\ UNCHANGED <<selectionVars, newGroup>>
    /\ UNCHANGED <<listVars, newCategory, newTopic, listFetchFailed, reloaded>>

(***************************************************************************)
(* The page session.                                                       *)
(***************************************************************************)
Slots == 1..MaxPending

Next ==
    \/ \E c \in Categories : CategoryNameClick(c)
    \/ \E c \in Categories : CategoryEditClick(c)
    \/ \E c \in Categories : CategoryCancelClick(c)
    \/ \E c \in Categories, v \in TypedValues : CategoryType(c, v)
    \/ \E c \in Categories : CategorySaveClick(c)
    \/ \E i \in Slots, r \in Responses : CategoryUpdated(i, r)
    \/ \E c \in Categories, ok \in BOOLEAN : CategoryDeleteClick(c, ok)
    \/ \E i \in Slots, r \in Responses : CategoryDeleted(i, r)
    \/ \E v \in TypedValues : NewCategoryType(v)
    \/ HandleCreateCategory
    \/ \E i \in Slots, r \in Responses : CategoryCreated(i, r)
    \/ \E i \in Slots, c \in Categories : \E t \in TopicLists(c) : TopicsLoaded(i, t)
    \/ \E i \in Slots : TopicsNotArray(i)
    \/ \E i \in Slots : TopicsFetchFails(i)
    \/ \E k \in 1..Len(topicRows) : TopicNameClick(k)
    \/ \E k \in 1..Len(topicRows) : TopicEditClick(k)
    \/ \E k \in 1..Len(topicRows) : TopicCancelClick(k)
    \/ \E k \in 1..Len(topicRows), v \in TypedValues : TopicType(k, v)
    \/ \E k \in 1..Len(topicRows) : TopicSaveClick(k)
    \/ \E i \in Slots, r \in Responses : TopicUpdated(i, r)
    \/ \E k \in 1..Len(topicRows), ok \in BOOLEAN : TopicDeleteClick(k, ok)
    \/ \E i \in Slots, r \in Responses : TopicDeleted(i, r)
    \/ \E v \in TypedValues : NewTopicType(v)
    \/ HandleCreateTopic
    \/ \E i \in Slots, r \in Responses : TopicCreated(i, r)
    \/ \E i \in Slots, t \in FetchedTopicIds : \E g \in GroupLists(t) : GroupsLoaded(i, g)
    \/ \E i \in Slots : GroupsNotArray(i)
    \/ \E i \in Slots : GroupsFetchFails(i)
    \/ \E k \in 1..Len(groupRows) : GroupEditClick(k)
    \/ \E k \in 1..Len(groupRows) : GroupCancelClick(k)
    \/ \E k \in 1..Len(groupRows), v \in TypedValues : GroupType(k, v)
    \/ \E k \in 1..Len(groupRows) : GroupSaveClick(k)
    \/ \E i \in Slots, r \in Responses : GroupUpdated(i, r)
    \/ \E k \in 1..Len(groupRows), ok \in BOOLEAN : GroupDeleteClick(k, ok)
    \/ \E i \in Slots, r \in Responses : GroupDeleted(i, r)
    \/ \E v \in TypedValues : NewGroupType(v)
    \/ HandleCreateGroup
    \/ \E i \in Slots, r \in Responses : GroupCreated(i, r)

Spec == Init /\ [][Next]_vars

(***************************************************************************)
(* The status toggle: the click handler of a .status-btn and               *)
(* updateStatus.                                                           *)
(***************************************************************************)
NoError == "ok"

\* updateStatus(postId, statusStr): the message of the error it throws, or
\* NoError.  fetch may reject; with !res.ok, res.json() may reject (the body
\* is no JSON) and data.message of the JSON value null is a TypeError; the
\* body is not read when res.ok.
UpdateStatus(r) ==
    IF r.reject THEN "network_error"
    ELSE IF r.httpOk THEN NoError
    ELSE IF r.body = "bad" THEN "syntax_error"
    ELSE IF r.body = "null" THEN "type_error"
    ELSE IF r.message # "" THEN r.message
    ELSE "status_update_failed"

\* mutant of StatusClick: the comparison with dataset.current is missing
StatusClickAlwaysSends(btn) ==
    /\ statusClicks < MaxClicks
    /\ statusClicks' = statusClicks + 1
    /\ statusAlert' = NoAlert
    /\ LET nextStatus == BtnStatus(btn) IN
         /\ ApplyActiveState(nextStatus)
         /\ statusIssued' = statusIssued + 1
         /\ statusPending' =
              Append(statusPending,
                     [seq |-> statusIssued + 1,
                      status |-> StatusStr(nextStatus),
                      target |-> nextStatus,
                      prev |-> toggleCurrent,
                      overlaps |-> {statusPending[j].seq :
                                      j \in 1..Len(statusPending)}])
    /\ UNCHANGED <<statusLog, initialStatus, pageVars, filterVars>>

\* a click on the button btn of the toggle, up to the await in updateStatus
StatusClick(btn) ==
    /\ statusClicks < MaxClicks
    /\ statusClicks' = statusClicks + 1
    /\ statusAlert' = NoAlert
    /\ LET nextStatus == BtnStatus(btn) IN
         IF toggleCurrent = nextStatus
         THEN UNCHANGED <<toggleCurrent, activeBtns, statusPending, statusIssued>>
         ELSE /\ ApplyActiveState(nextStatus)
              /\ statusIssued' = statusIssued + 1
              /\ statusPending' =
                   Append(statusPending,
                          [seq |-> statusIssued + 1,
                           status |-> StatusStr(nextStatus),
                           target |-> nextStatus,
                           prev |-> toggleCurrent,
                           overlaps |-> {statusPending[j].seq :
                                           j \in 1..Len(statusPending)}])
    /\ UNCHANGED <<statusLog, initialStatus, pageVars, filterVars>>

\* mutant of StatusAnswered: the catch block shows the message but does not
\* put the toggle back
StatusAnsweredWithoutRevert(i, r) ==
    /\ i \in 1..Len(statusPending)
    /\ LET q == statusPending[i]
           err == UpdateStatus(r)
       IN
         /\ statusPending' = RemoveAt(statusPending, i)
         /\ statusLog' =
              Append(statusLog,
                     [seq |-> q.seq, target |-> q.target, prev |-> q.prev,
                      overlaps |-> q.overlaps, ok |-> err = NoError])
         /\ UNCHANGED <<toggleCurrent, activeBtns>>
         /\ statusAlert' = IF err = NoError THEN NoAlert ELSE err
    /\ UNCHANGED <<statusClicks, statusIssued, initialStatus, pageVars, filterVars>>

\* updateStatus returns or throws in the handler suspended as statusPending[i]
StatusAnswered(i, r) ==
    /\ i \in 1..Len(statusPending)
    /\ LET q == statusPending[i]
           err == UpdateStatus(r)
       IN
         /\ statusPending' = RemoveAt(statusPending, i)
         /\ statusLog' =
              Append(statusLog,
                     [seq |-> q.seq, target |-> q.target, prev |-> q.prev,
                      overlaps |-> q.overlaps, ok |-> err = NoError])
         /\ IF err = NoError
            THEN /\ UNCHANGED <<toggleCurrent, activeBtns>>
                 /\ statusAlert' = NoAlert
            ELSE /\ ApplyActiveState(q.prev)
                 /\ statusAlert' = err
    /\ UNCHANGED <<statusClicks, statusIssued, initialStatus, pageVars, filterVars>>

StatusSlots == 1..MaxClicks

ToggleInit ==
    /\ PageInit
    /\ \E current \in Statuses : ToggleLoaded(current)
    /\ EmptyFilterPage

ToggleNext ==
    \/ \E btn \in StatusButtons : StatusClick(btn)
    \/ \E i \in StatusSlots, r \in Responses : StatusAnswered(i, r)

ToggleSpec == ToggleInit /\ [][ToggleNext]_vars

(***************************************************************************)
(* The linked selection controls: updateTopics, updateGroups, the mode     *)
(* radios and initializeCategoryUI.                                        *)
(***************************************************************************)
\* topics.filter(t => t.category_id === selectedCategory); NaN equals nothing
FilterTopics(selectedCategory) ==
    SelectSeq(windowTopics,
              LAMBDA t : selectedCategory # NaN /\ t.category_id = selectedCategory)

\* groups.filter(g => g.topic_id === selectedTopic)
FilterGroups(selectedTopic) ==
    SelectSeq(windowGroups,
              LAMBDA g : selectedTopic # NaN /\ g.topic_id = selectedTopic)

\* mutant of UpdateGroups: groupSelect.innerHTML = "" is missing
UpdateGroupsWithoutClearing(sel) ==
    IF "topic_select" \notin elements \/ "group_select" \notin elements THEN sel
    ELSE LET selectedTopic == ParseInt(ValueOf(sel.topic)) IN
           [sel EXCEPT !.group =
              Appended(sel.group, OptionsOf(FilterGroups(selectedTopic)))]

\* updateGroups(), on the selects sel
UpdateGroups(sel) ==
    IF "topic_select" \notin elements \/ "group_select" \notin elements THEN sel
    ELSE LET selectedTopic == ParseInt(ValueOf(sel.topic)) IN
           [sel EXCEPT !.group =
              Appended(NoOptions, OptionsOf(FilterGroups(selectedTopic)))]

\* mutant of UpdateTopics: the trailing updateGroups() is missing
UpdateTopicsOnly(sel) ==
    IF "category_select" \notin elements \/ "topic_select" \notin elements THEN sel
    ELSE LET selectedCategory == ParseInt(ValueOf(sel.category)) IN
           [sel EXCEPT !.topic =
              Appended(NoOptions, OptionsOf(FilterTopics(selectedCategory)))]

\* updateTopics(), on the selects sel
UpdateTopics(sel) ==
    IF "category_select" \notin elements \/ "topic_select" \notin elements THEN sel
    ELSE LET selectedCategory == ParseInt(ValueOf(sel.category)) IN
           UpdateGroups(
             [sel EXCEPT !.topic =
                Appended(NoOptions, OptionsOf(FilterTopics(selectedCategory)))])

\* mutant of ShowMode: the select is shown in both modes
ShowModeSelectAlways(d, level, isNew) ==
    [e \in AllElements |->
       IF e = SelectOf(level) /\ e \in elements THEN "block"
       ELSE IF e = InputOf(level) /\ e \in elements
            THEN (IF isNew THEN "block" ELSE "none")
       ELSE d[e]]

\* selectEl.style.display = isNew ? "none" : "block" and
\* inputEl.style.display = isNew ? "block" : "none", each if the element exists
ShowMode(d, level, isNew) ==
    [e \in AllElements |->
       IF e = SelectOf(level) /\ e \in elements
       THEN (IF isNew THEN "none" ELSE "block")
       ELSE IF e = InputOf(level) /\ e \in elements
            THEN (IF isNew THEN "block" ELSE "none")
       ELSE d[e]]

\* applyInitialRadioState for one level: only a checked radio acts
ApplyInitialRadioState(d, level) ==
    IF checkedRadio[level] = NoRadio THEN d
    ELSE ShowMode(d, level, checkedRadio[level] = "new")

\* initializeCategoryUI()
InitializeCategoryUI ==
    /\ ~initialized
    /\ initialized' = TRUE
    /\ LET s1 == IF "category_select" \in elements
                 THEN UpdateTopics(selects) ELSE selects
       IN selects' = IF "topic_select" \in elements THEN UpdateGroups(s1) ELSE s1
    /\ display' =
         ApplyInitialRadioState(
           ApplyInitialRadioState(
             ApplyInitialRadioState(display, "category"), "topic"), "group")
    /\ UNCHANGED <<windowTopics, windowGroups, elements, checkedRadio,
                   pageVars, toggleVars>>

\* the user picks option k of #category_select: its change listener
CategoryChange(k) ==
    /\ initialized
    /\ "category_select" \in elements
    /\ k \in 1..Len(selects.category.options)
    /\ k # selects.category.selectedIndex
    /\ selects' = UpdateTopics([selects EXCEPT !.category.selectedIndex = k])
    /\ UNCHANGED <<windowTopics, windowGroups, elements, display, checkedRadio,
                   initialized, pageVars, toggleVars>>

\* the user picks option k of #topic_select: its change listener
TopicChange(k) ==
    /\ initialized
    /\ "topic_select" \in elements
    /\ k \in 1..Len(selects.topic.options)
    /\ k # selects.topic.selectedIndex
    /\ selects' = UpdateGroups([selects EXCEPT !.topic.selectedIndex = k])
    /\ UNCHANGED <<windowTopics, windowGroups, elements, display, checkedRadio,
                   initialized, pageVars, toggleVars>>

\* the user checks the radio with value v of a level: the change listener
\* setupRadioToggle registered on it
ModeChange(level, v) ==
    /\ initialized
    /\ checkedRadio[level] # v
    /\ checkedRadio' = [checkedRadio EXCEPT ![level] = v]
    /\ display' = ShowMode(display, level, v = "new")
    /\ UNCHANGED <<windowTopics, windowGroups, elements, selects, initialized,
                   pageVars, toggleVars>>

\* the radios checked at load: none, or the same mode on every level
InitialRadios ==
    {[l \in Levels |-> v] : v \in RadioValues \cup {NoRadio}}

FilterInit ==
    /\ PageInit
    /\ ToggleLoaded(STATUS_PUBLIC)
    /\ \E preTopics \in Arrays(TopicPool), preGroups \in Arrays(GroupPool),
          els \in ElementSets, categoryOptions \in CategoryOptionLists,
          radios \in InitialRadios :
         \E c \in Selectable(categoryOptions), t \in Selectable(preTopics) :
           FilterPage(preTopics, preGroups, els, categoryOptions, c, t, radios)

OptionSlots == 1..MaxListed

FilterNext ==
    \/ InitializeCategoryUI
    \/ \E k \in OptionSlots : CategoryChange(k)
    \/ \E k \in OptionSlots : TopicChange(k)
    \/ \E level \in Levels, v \in RadioValues : ModeChange(level, v)

FilterSpec == FilterInit /\ [][FilterNext]_vars

(***************************************************************************)
(* Vocabulary of the properties.                                           *)
(***************************************************************************)
NoFetchInFlight(kinds) == \A i \in 1..Len(pending) : pending[i].kind \notin kinds

\* a string that is empty after trimming: nothing but white space
IsBlank(s) == \A i \in 1..Len(s) : s[i] = " "

\* name is v without its leading and trailing white space, and is not empty
IsTrimOf(name, v) ==
    /\ name # EmptyStr
    /\ name[1] # " "
    /\ name[Len(name)] # " "
    /\ \E a \in 0..Len(v) :
         /\ a + Len(name) <= Len(v)
         /\ IsBlank(SubSeq(v, 1, a))
         /\ SubSeq(v, a + 1, a + Len(name)) = name
         /\ IsBlank(SubSeq(v, a + Len(name) + 1, Len(v)))

Viewing(r) == r.hidden = EditElements
Editing(r) == r.hidden = ViewElements

\* this step issued one request of the kind and nothing else happened to pending
Issued(kind) ==
    /\ Len(pending') = Len(pending) + 1
    /\ SubSeq(pending', 1, Len(pending)) = pending
    /\ pending'[Len(pending')].kind = kind

\* the steps of loadGroups: its invocation (by a topic name click or after a
\* group create / delete) and the completion or failure of its fetch
LoadGroupsStep ==
    \/ \E k \in 1..Len(topicRows) : TopicNameClick(k)
    \/ \E i \in Slots, r \in Responses : GroupCreated(i, r) \/ GroupDeleted(i, r)
    \/ \E i \in Slots, t \in FetchedTopicIds : \E g \in GroupLists(t) : GroupsLoaded(i, g)
    \/ \E i \in Slots : GroupsNotArray(i)
    \/ \E i \in Slots : GroupsFetchFails(i)

\* C1: whenever no topic-list fetch is in flight (and none failed), the
\* rendered topic list is the list the server returned for currentCategoryId.
C1_TopicListIsForSelectedCategory ==
    (/\ ~reloaded
     /\ ~listFetchFailed
     /\ currentCategoryId # Null
     /\ NoFetchInFlight({"topics"}))
    => RowIds(topicRows) = topicsReturned[currentCategoryId]

\* C2: whenever no topic-list or group-list fetch is in flight (and none
\* failed), the rendered group list is the list the server returned for
\* currentTopicId, and it is empty when currentTopicId is null.
C2_GroupListIsForSelectedTopic ==
    (/\ ~reloaded
     /\ ~listFetchFailed
     /\ NoFetchInFlight({"topics", "groups"}))
    => IF currentTopicId = Null
       THEN groupRows = << >>
       ELSE RowIds(groupRows) = groupsReturned[currentTopicId]

\* C3: in every reachable state a non-null currentTopicId is the id of a
\* topic that belongs to currentCategoryId (selecting a category clears the
\* topic selection).
C3_SelectedTopicBelongsToSelectedCategory ==
    currentTopicId # Null => TopicCategory(currentTopicId) = currentCategoryId

\* C4: loadGroups, from its invocation through the completion of its fetch,
\* leaves currentCategoryId, currentCategoryName, the current-category label
\* and the rendered topic list as they were.
C4_LoadGroupsKeepsCategorySelection ==
    [][LoadGroupsStep =>
         UNCHANGED <<currentCategoryId, currentCategoryName, categoryLabel,
                     topicRows, topicCreateHidden>>]_vars

\* C4 witness: a topic was selected under a selected category and its groups
\* were fetched and rendered
C4_Witness ==
    /\ currentCategoryId # Null
    /\ topicRows # << >>
    /\ currentTopicId # Null
    /\ RowIds(groupRows) = groupsReturned[currentTopicId]
    /\ groupRows # << >>

\* C5: a save whose response is a success (HTTP ok, parseable JSON object,
\* status "ok") leaves the row, if it is still rendered, showing the submitted
\* trimmed name, in the viewing state; the submitted name is trimmed and
\* non-empty.
C5_SuccessfulSaveShowsSubmittedName ==
    [][/\ \A i \in Slots, r \in Responses :
            (r.body = "obj" /\ r.httpOk /\ r.status = "ok" /\ ~r.reject) =>
              /\ CategoryUpdated(i, r) =>
                   /\ categoryRows'[pending[i].id].text = pending[i].name
                   /\ Viewing(categoryRows'[pending[i].id])
              /\ (TopicUpdated(i, r) /\ RowIndex(topicRows, pending[i].id) # 0) =>
                   LET row == topicRows'[RowIndex(topicRows', pending[i].id)] IN
                     row.text = pending[i].name /\ Viewing(row)
              /\ (GroupUpdated(i, r) /\ RowIndex(groupRows, pending[i].id) # 0) =>
                   LET row == groupRows'[RowIndex(groupRows', pending[i].id)] IN
                     row.text = pending[i].name /\ Viewing(row)
       /\ Issued("category_update") =>
            LET q == pending'[Len(pending')] IN
              IsTrimOf(q.name, categoryRows[q.id].value)
       /\ Issued("topic_update") =>
            LET q == pending'[Len(pending')] IN
              /\ RowIndex(topicRows, q.id) # 0
              /\ IsTrimOf(q.name, topicRows[RowIndex(topicRows, q.id)].value)
       /\ Issued("group_update") =>
            LET q == pending'[Len(pending')] IN
              /\ RowIndex(groupRows, q.id) # 0
              /\ IsTrimOf(q.name, groupRows[RowIndex(groupRows, q.id)].value)
      ]_vars

\* C5 witness: a category row typed as " b " was saved and now shows "b",
\* viewing
C5_Witness ==
    \E c \in Categories :
        /\ categoryRows[c].text = NameB
        /\ categoryRows[c].value = PaddedB
        /\ Viewing(categoryRows[c])

\* the elements a failed or blocked handler must leave alone: selection,
\* labels, create areas, every rendered row, the create inputs, the requests
\* in flight, the page itself
pageState == <<selectionVars, categoryRows, topicRows, groupRows, inputVars,
               pending, reloaded>>

\* C6: in every save handler and every create handler a name that is empty
\* after trimming issues no request and changes nothing (the row stays as it
\* is, names, selection and lists are unchanged), and a message is shown.
C6_BlankNameIsBlockedWithMessage ==
    [][/\ \A c \in Categories :
            (CategorySaveClick(c) /\ IsBlank(categoryRows[c].value)) =>
              UNCHANGED pageState /\ alertMsg' # NoAlert
       /\ \A k \in 1..Len(topicRows) :
            (TopicSaveClick(k) /\ IsBlank(topicRows[k].value)) =>
              UNCHANGED pageState /\ alertMsg' # NoAlert
       /\ \A k \in 1..Len(groupRows) :
            (GroupSaveClick(k) /\ IsBlank(groupRows[k].value)) =>
              UNCHANGED pageState /\ alertMsg' # NoAlert
       /\ (HandleCreateCategory /\ IsBlank(newCategory)) =>
              UNCHANGED pageState /\ alertMsg' # NoAlert
       /\ (HandleCreateTopic /\ IsBlank(newTopic)) =>
              UNCHANGED pageState /\ alertMsg' # NoAlert
       /\ (HandleCreateGroup /\ IsBlank(newGroup)) =>
              UNCHANGED pageState /\ alertMsg' # NoAlert
      ]_vars

\* C6 witness: a topic row in editing whose input holds only white space,
\* right after its save click was answered with the validation message
C6_Witness ==
    /\ alertMsg = "topic_name_required"
    /\ \E k \in 1..Len(topicRows) :
         /\ Editing(topicRows[k])
         /\ topicRows[k].value = BlankStr
    /\ pending = << >>

\* the responses C7 calls a failure: the body is no JSON, or the HTTP status
\* is not a success, or the parsed payload's status is not "ok"
IsFailedUpdate(r) ==
    /\ ~r.reject
    /\ \/ r.body = "bad"
       \/ ~r.httpOk
       \/ r.body = "obj" /\ r.status # "ok"

\* C7: a failed update (unparseable body, HTTP not ok, status not "ok")
\* changes no local state (row name and view state, cached names, labels)
\* and shows a message.
C7_FailedUpdateChangesNothingAndShowsMessage ==
    [][\A i \in Slots, r \in Responses :
         (/\ IsFailedUpdate(r)
          /\ \/ CategoryUpdated(i, r)
             \/ TopicUpdated(i, r)
             \/ GroupUpdated(i, r))
         => /\ UNCHANGED <<selectionVars, categoryRows, topicRows, groupRows,
                           inputVars, reloaded>>
            /\ alertMsg' # NoAlert
      ]_vars

\* the part of C7 the code keeps: a failed update changes no local state
C7_FailedUpdateChangesNothing ==
    [][\A i \in Slots, r \in Responses :
         (/\ IsFailedUpdate(r)
          /\ \/ CategoryUpdated(i, r)
             \/ TopicUpdated(i, r)
             \/ GroupUpdated(i, r))
         => UNCHANGED <<selectionVars, categoryRows, topicRows, groupRows,
                        inputVars, reloaded>>
      ]_vars

\* the responses C8 calls a failed delete request
IsFailedDelete(r) ==
    \/ r.reject
    \/ r.body = "bad"
    \/ ~r.httpOk
    \/ r.body = "obj" /\ r.status # "ok"

IsSuccess(r) == ~r.reject /\ r.body = "obj" /\ r.httpOk /\ r.status = "ok"

\* pending[i] is answered and nothing is fetched in its place
OnlyAnswered(i) == pending' = RemoveAt(pending, i)

\* a declined confirmation: no request, nothing changes
DeclinedDeleteChangesNothing ==
    /\ \A c \in Categories :
         CategoryDeleteClick(c, FALSE) => UNCHANGED pageState
    /\ \A k \in 1..Len(topicRows) :
         TopicDeleteClick(k, FALSE) => UNCHANGED pageState
    /\ \A k \in 1..Len(groupRows) :
         GroupDeleteClick(k, FALSE) => UNCHANGED pageState

\* only a success reloads the page (category) or fetches the current parent's
\* child list again (topic, group); a failure does neither and keeps the state
DeleteReloadsOnlyOnSuccess ==
    \A i \in Slots, r \in Responses :
        /\ CategoryDeleted(i, r) =>
             /\ reloaded' => IsSuccess(r)
             /\ IsSuccess(r) => reloaded'
             /\ ~IsSuccess(r) => OnlyAnswered(i)
             /\ ~IsSuccess(r) => UNCHANGED <<selectionVars, categoryRows,
                                             topicRows, groupRows, inputVars>>
        /\ TopicDeleted(i, r) =>
             /\ ~reloaded'
             /\ ~OnlyAnswered(i) => IsSuccess(r)
             /\ (IsSuccess(r) /\ currentCategoryId # Null) =>
                  pending' = Append(RemoveAt(pending, i),
                                    Request("topics", currentCategoryId,
                                            currentCategoryName))
             /\ ~IsSuccess(r) => UNCHANGED <<selectionVars, categoryRows,
                                             topicRows, groupRows, inputVars>>
        /\ GroupDeleted(i, r) =>
             /\ ~reloaded'
             /\ ~OnlyAnswered(i) => IsSuccess(r)
             /\ (IsSuccess(r) /\ currentTopicId # Null) =>
                  pending' = Append(RemoveAt(pending, i),
                                    Request("groups", currentTopicId,
                                            currentTopicName))
             /\ ~IsSuccess(r) => UNCHANGED <<selectionVars, categoryRows,
                                             topicRows, groupRows, inputVars>>

\* a failed delete request shows a message
FailedDeleteShowsMessage ==
    \A i \in Slots, r \in Responses :
        (/\ IsFailedDelete(r)
         /\ \/ CategoryDeleted(i, r)
            \/ TopicDeleted(i, r)
            \/ GroupDeleted(i, r))
        => alertMsg' # NoAlert

\* C8: a declined delete issues no request and changes nothing; a failed
\* delete request (fetch rejects, unparseable body, HTTP not ok, status not
\* "ok") shows a message and neither reloads nor fetches a list; only a
\* confirmed delete answered with HTTP ok and status "ok" reloads the page
\* (category) or fetches the current parent's child list again (topic, group).
C8_DeleteOutcomes ==
    [][/\ DeclinedDeleteChangesNothing
       /\ DeleteReloadsOnlyOnSuccess
       /\ FailedDeleteShowsMessage]_vars

\* the part of C8 the code keeps: everything but the message of a failed delete
C8_DeleteOutcomesButMessage ==
    [][DeclinedDeleteChangesNothing /\ DeleteReloadsOnlyOnSuccess]_vars

\* the continuation of a mutation request (create, update or delete of a
\* category, topic or group) runs on pending[i] with response r
MutationAnswered(i, r) ==
    \/ CategoryCreated(i, r) \/ CategoryUpdated(i, r) \/ CategoryDeleted(i, r)
    \/ TopicCreated(i, r) \/ TopicUpdated(i, r) \/ TopicDeleted(i, r)
    \/ GroupCreated(i, r) \/ GroupUpdated(i, r) \/ GroupDeleted(i, r)

\* C9: when the fetch of a mutation request rejects, the handler that issued
\* it shows a message and leaves the UI in its prior state.
C9_TransportFailureIsHandled ==
    [][\A i \in Slots :
         MutationAnswered(i, Rejected) =>
           /\ alertMsg' # NoAlert
           /\ ~uncaught'
           /\ UNCHANGED <<selectionVars, categoryRows, topicRows, groupRows,
                          inputVars, reloaded>>
      ]_vars

\* the part of C9 the code keeps: a rejected fetch changes nothing on the page
C9_TransportFailureChangesNothing ==
    [][\A i \in Slots :
         MutationAnswered(i, Rejected) =>
           UNCHANGED <<selectionVars, categoryRows, topicRows, groupRows,
                       inputVars, reloaded>>
      ]_vars

\* C10: handleCreateTopic issues a request only with a non-null
\* currentCategoryId and handleCreateGroup only with a non-null
\* currentTopicId; with a null parent the handler shows a message, issues no
\* request and changes nothing; the request carries the parent id of click
\* time.  (Non-null is what the handlers test: the 0 that loadGroups(null)
\* stores passes as a parent.)
C10_CreateNeedsParentSelection ==
    [][/\ Issued("topic_create") =>
            /\ currentCategoryId # Null
            /\ pending'[Len(pending')].id = currentCategoryId
       /\ Issued("group_create") =>
            /\ currentTopicId # Null
            /\ pending'[Len(pending')].id = currentTopicId
       /\ (HandleCreateTopic /\ currentCategoryId = Null) =>
            UNCHANGED pageState /\ alertMsg' # NoAlert
       /\ (HandleCreateGroup /\ currentTopicId = Null) =>
            UNCHANGED pageState /\ alertMsg' # NoAlert
       /\ \A i \in 1..Len(pending') :
            /\ pending'[i].kind = "topic_create" => pending'[i].id \in Categories
            /\ pending'[i].kind = "group_create" => pending'[i].id # Null
      ]_vars

\* C10 witness: a group create request in flight that carries the selected
\* topic's id, issued with a name typed into #new-group
C10_Witness ==
    /\ currentTopicId # Null
    /\ newGroup = PaddedB
    /\ \E i \in 1..Len(pending) :
         pending[i] = Request("group_create", currentTopicId, NameB)

(***************************************************************************)
(* Topic and group mutations answered with an HTTP failure.                *)
(***************************************************************************)
\* a response with a failing HTTP status whose body is a JSON object
IsHttpFailure(r) == ~r.reject /\ ~r.httpOk /\ r.body = "obj"

\* the continuation of an update or delete of a topic or group
TopicOrGroupChanged(i, r) ==
    \/ TopicUpdated(i, r) \/ TopicDeleted(i, r)
    \/ GroupUpdated(i, r) \/ GroupDeleted(i, r)

\* the handler treats the response as a failure: nothing on the page changes,
\* no list is fetched again and a message is shown
TreatedAsFailure(i) ==
    /\ UNCHANGED <<selectionVars, categoryRows, topicRows, groupRows,
                   inputVars, reloaded>>
    /\ OnlyAnswered(i)
    /\ alertMsg' # NoAlert

\* C11: a topic or group mutation (create included) answered with a failing
\* HTTP status is a failure whatever the body's status field says: the
\* create input is not cleared, no list is fetched again, a message is shown.
C11_HttpFailureIsFailure ==
    [][\A i \in Slots, r \in Responses :
         (/\ IsHttpFailure(r)
          /\ \/ TopicOrGroupChanged(i, r)
             \/ TopicCreated(i, r)
             \/ GroupCreated(i, r))
         => TreatedAsFailure(i)
      ]_vars

\* the part of C11 the code keeps: updates and deletes of topics and groups
C11_HttpFailureOfUpdateOrDeleteIsFailure ==
    [][\A i \in Slots, r \in Responses :
         (IsHttpFailure(r) /\ TopicOrGroupChanged(i, r))
         => TreatedAsFailure(i)
      ]_vars

(***************************************************************************)
(* The message of a failed update or delete.                               *)
(***************************************************************************)
\* the body parsed as JSON and the operation failed
IsParsedFailure(r) ==
    /\ ~r.reject
    /\ r.body \in {"null", "obj"}
    /\ ~r.httpOk \/ r.status # "ok"

\* message if present and non-empty, else detail, else the fallback
PreferredMessage(r, fallback) ==
    CASE r.body = "obj" /\ r.message # "" -> r.message
      [] r.body = "obj" /\ r.message = "" /\ r.detail # "" -> r.detail
      [] OTHER -> fallback

\* every update and delete continuation shows PreferredMessage for the
\* failed responses among rs
FailureMessageIsPreferred(rs) ==
    \A i \in Slots, r \in rs :
      IsParsedFailure(r) =>
        /\ CategoryUpdated(i, r) =>
             alertMsg' = PreferredMessage(r, "category_update_failed")
        /\ TopicUpdated(i, r) =>
             alertMsg' = PreferredMessage(r, "topic_update_failed")
        /\ GroupUpdated(i, r) =>
             alertMsg' = PreferredMessage(r, "group_update_failed")
        /\ CategoryDeleted(i, r) =>
             alertMsg' = PreferredMessage(r, "category_delete_failed")
        /\ TopicDeleted(i, r) =>
             alertMsg' = PreferredMessage(r, "topic_delete_failed")
        /\ GroupDeleted(i, r) =>
             alertMsg' = PreferredMessage(r, "group_delete_failed")

\* C12: a failed update or delete whose body parsed as JSON shows exactly
\* one message: the payload's message if non-empty, else its detail if
\* non-empty, else the operation's generic fallback.
C12_FailureMessagePreference ==
    [][FailureMessageIsPreferred(Responses)]_vars

\* the part of C12 the code keeps: payloads that are JSON objects
C12_ObjectPayloadMessagePreference ==
    [][FailureMessageIsPreferred({r \in Responses : r.body = "obj"})]_vars

(***************************************************************************)
(* The status toggle.                                                      *)
(***************************************************************************)
\* the confirmation request failed: fetch rejected or the HTTP status is
\* not a success
StatusRequestFails(r) == r.reject \/ ~r.httpOk

\* C13: a click on the button of the state the toggle is already in issues
\* no request and leaves the active button and the stored state unchanged.
C13_ClickOnCurrentStateDoesNothing ==
    [][\A btn \in StatusButtons :
         (StatusClick(btn) /\ toggleCurrent = BtnStatus(btn))
         => UNCHANGED <<toggleCurrent, activeBtns, statusPending, statusIssued>>
      ]_vars

\* C13 witness: the toggle was switched and its now active button clicked
\* again while the request of the switch is still in flight
C13_Witness ==
    /\ statusClicks = 2
    /\ statusIssued = 1
    /\ Len(statusPending) = 1
    /\ toggleCurrent = statusPending[1].target
    /\ activeBtns = {StatusStr(toggleCurrent)}

\* C14: a click on the button of the other state makes that button the only
\* active one and stores its state at once, and sends exactly one request
\* with the literal of that state ("public" for 0, "private" for 1); if the
\* request fails and no request was issued after it, the toggle is back in
\* the state it had before the click and a message is shown.
C14_OptimisticUpdateWithRevert ==
    [][/\ \A btn \in StatusButtons :
            (StatusClick(btn) /\ toggleCurrent # BtnStatus(btn))
            => /\ activeBtns' = {btn}
               /\ toggleCurrent' = BtnStatus(btn)
               /\ Len(statusPending') = Len(statusPending) + 1
               /\ SubSeq(statusPending', 1, Len(statusPending)) = statusPending
               /\ statusPending'[Len(statusPending')].status =
                    (IF toggleCurrent' = 0 THEN "public" ELSE "private")
       /\ \A i \in StatusSlots, r \in Responses :
            (/\ StatusAnswered(i, r)
             /\ StatusRequestFails(r)
             /\ statusPending[i].seq = statusIssued)
            => /\ toggleCurrent' = statusPending[i].prev
               /\ activeBtns' = {StatusStr(statusPending[i].prev)}
               /\ statusAlert' # NoAlert
               /\ statusPending' = RemoveAt(statusPending, i)
      ]_vars

\* C14 witness: the only request issued failed; the toggle shows the state
\* it was loaded with and a message
C14_Witness ==
    /\ statusIssued = 1
    /\ Len(statusLog) = 1
    /\ ~statusLog[1].ok
    /\ toggleCurrent = initialStatus
    /\ activeBtns = {StatusStr(initialStatus)}
    /\ statusAlert # NoAlert

\* the round trip of C15 has completed: exactly two requests were issued,
\* the first from O to X succeeded, the second, issued while the first was
\* in flight, from X back to O failed
RoundTripDone(first, second) ==
    /\ statusIssued = 2
    /\ statusPending = << >>
    /\ Len(statusLog) = 2
    /\ {first, second} = {1, 2}
    /\ statusLog[first].seq = 1
    /\ statusLog[first].ok
    /\ statusLog[first].prev = initialStatus
    /\ statusLog[second].seq = 2
    /\ ~statusLog[second].ok
    /\ statusLog[second].target = initialStatus
    /\ 1 \in statusLog[second].overlaps

\* C15: from state O, a click to X that is confirmed and, before its
\* response, a click back to O that fails leave the toggle in X once both
\* requests have completed, in either completion order.
C15_RoundTripEndsInConfirmedState ==
    \A first, second \in 1..2 :
      RoundTripDone(first, second) =>
        /\ toggleCurrent = statusLog[first].target
        /\ toggleCurrent # initialStatus
        /\ activeBtns = {StatusStr(statusLog[first].target)}

\* C15 witness: the round trip completed with the failure of the second
\* request arriving before the confirmation of the first
C15_Witness ==
    /\ RoundTripDone(2, 1)
    /\ toggleCurrent = statusLog[2].target

\* the entries of the log that succeeded
Succeeded == {j \in 1..Len(statusLog) : statusLog[j].ok}

\* the target of the most recently issued request that succeeded, or the
\* state the toggle was loaded with
LastSuccessfulState ==
    IF Succeeded = {} THEN initialStatus
    ELSE LET j == CHOOSE j \in Succeeded :
                    \A k \in Succeeded : statusLog[k].seq <= statusLog[j].seq
         IN statusLog[j].target

\* C16: once no request is in flight, the toggle shows the target of the
\* most recently issued request that succeeded, or its initial state if
\* none succeeded.
C16_LastSuccessfulStateWins ==
    statusPending = << >> =>
      /\ toggleCurrent = LastSuccessfulState
      /\ activeBtns = {StatusStr(LastSuccessfulState)}

(***************************************************************************)
(* Mutation requests of one row.                                           *)
(***************************************************************************)
\* the level ("category", "topic", "group") of the row an update or delete
\* request is about, or "none" for every other request
RowLevel(q) ==
    CASE q.kind \in {"category_update", "category_delete"} -> "category"
      [] q.kind \in {"topic_update", "topic_delete"} -> "topic"
      [] q.kind \in {"group_update", "group_delete"} -> "group"
      [] OTHER -> "none"

\* C17: no two update or delete requests for the same row are in flight at
\* the same time.
C17_OneMutationPerRowInFlight ==
    \A i, j \in 1..Len(pending) :
      (/\ i < j
       /\ RowLevel(pending[i]) # "none"
       /\ RowLevel(pending[i]) = RowLevel(pending[j]))
      => pending[i].id # pending[j].id

(***************************************************************************)
(* The linked selection controls.                                          *)
(***************************************************************************)
\* options are exactly the items at the indexes wanted, in the order of items
ExactlyInOrder(options, items, wanted) ==
    /\ Len(options) = Cardinality(wanted)
    /\ \A j \in wanted :
         options[Cardinality({i \in wanted : i <= j})] =
           [value |-> NumberToString(items[j].id), text |-> items[j].name]

\* the indexes of the preloaded topics of the category whose option is selected
TopicsOfSelectedCategory(sel) ==
    {j \in 1..Len(windowTopics) :
       NumberToString(windowTopics[j].category_id) = ValueOf(sel.category)}

\* the indexes of the preloaded groups of the topic whose option is selected
GroupsOfSelectedTopic(sel) ==
    {j \in 1..Len(windowGroups) :
       NumberToString(windowGroups[j].topic_id) = ValueOf(sel.topic)}

\* the step runs updateTopics / updateGroups
UpdateTopicsRuns == InitializeCategoryUI \/ \E k \in OptionSlots : CategoryChange(k)
UpdateGroupsRuns == UpdateTopicsRuns \/ \E k \in OptionSlots : TopicChange(k)

AllSelectsPresent == \A l \in Levels : SelectOf(l) \in elements

\* C18: updateTopics sets the topic control's options to exactly the
\* preloaded topics of the selected category, in input order, every prior
\* option removed; updateGroups does the same for the groups of the selected
\* topic.
C18_StaticFilterResult ==
    [][/\ (/\ UpdateTopicsRuns
           /\ {"category_select", "topic_select"} \subseteq elements)
          => ExactlyInOrder(selects'.topic.options, windowTopics,
                            TopicsOfSelectedCategory(selects'))
       /\ (/\ UpdateGroupsRuns
           /\ {"topic_select", "group_select"} \subseteq elements)
          => ExactlyInOrder(selects'.group.options, windowGroups,
                            GroupsOfSelectedTopic(selects'))
      ]_vars

\* C18 witness: of three preloaded topics the two of category 1 are the
\* options, in input order, the topic of category 2 between them left out,
\* and the groups of the first are the group options
C18_Witness ==
    /\ initialized
    /\ AllSelectsPresent
    /\ Len(windowTopics) = 3
    /\ windowTopics[2].category_id = 2
    /\ ValueOf(selects.category) = NumberToString(1)
    /\ selects.topic.options =
         <<OptionOf(windowTopics[1]), OptionOf(windowTopics[3])>>
    /\ Len(windowGroups) = 3
    /\ Len(selects.group.options) \in {1, 2}

\* the selects are linked: group options of the selected topic, which is a
\* topic of the selected category
Linked ==
    /\ ExactlyInOrder(selects.group.options, windowGroups,
                      GroupsOfSelectedTopic(selects))
    /\ selects.topic.selectedIndex # 0 =>
         \E j \in TopicsOfSelectedCategory(selects) :
           NumberToString(windowTopics[j].id) = ValueOf(selects.topic)
    /\ selects.topic.selectedIndex = 0 => selects.topic.options = << >>

\* C19: after initialization and any category and topic changes the group
\* options are the groups of the selected topic, itself a topic of the
\* selected category; a category change selects the first topic of the new
\* category (no group options if it has none); a topic change leaves the
\* category selection and the topic options unchanged.
C19_LinkedSelects ==
    /\ [](initialized /\ AllSelectsPresent => Linked)
    /\ [][/\ (AllSelectsPresent /\ \E k \in OptionSlots : CategoryChange(k))
             => /\ selects'.topic.selectedIndex =
                     (IF TopicsOfSelectedCategory(selects') = {} THEN 0 ELSE 1)
                /\ TopicsOfSelectedCategory(selects') = {} =>
                     selects'.group.options = << >>
          /\ (AllSelectsPresent /\ \E k \in OptionSlots : TopicChange(k))
             => /\ selects'.category = selects.category
                /\ selects'.topic.options = selects.topic.options
         ]_vars

\* C19 witness: the second topic of category 1 was picked and its group is
\* the group option
C19_Witness ==
    /\ initialized
    /\ AllSelectsPresent
    /\ selects.topic.selectedIndex = 2
    /\ ValueOf(selects.topic) = NumberToString(11)
    /\ Len(windowGroups) = 3
    /\ selects.group.options = <<[value |-> NumberToString(110), text |-> NameA]>>

\* the controls of a level other than level show as before
OtherLevelsKeepDisplay(level) ==
    \A l \in Levels \ {level} :
      /\ display'[SelectOf(l)] = display[SelectOf(l)]
      /\ display'[InputOf(l)] = display[InputOf(l)]

\* C20: for a level whose checked mode radio is known, exactly one of the
\* select and the text input is visible: the input in "new" mode, the select
\* otherwise; a mode change on one level leaves the other levels' controls
\* as they were.
C20_ModeToggles ==
    /\ [](initialized =>
            \A l \in Levels :
              (/\ checkedRadio[l] # NoRadio
               /\ {SelectOf(l), InputOf(l)} \subseteq elements)
              => IF checkedRadio[l] = "new"
                 THEN display[SelectOf(l)] = "none" /\ display[InputOf(l)] = "block"
                 ELSE display[SelectOf(l)] = "block" /\ display[InputOf(l)] = "none")
    /\ [][\A level \in Levels, v \in RadioValues :
            ModeChange(level, v) => OtherLevelsKeepDisplay(level)]_vars

\* C20 witness: the category level was switched to "new" and the topic level
\* to the selection, the group level never had a checked radio
C20_Witness ==
    /\ initialized
    /\ elements = AllElements
    /\ checkedRadio = [l \in Levels |->
                         CASE l = "category" -> "new"
                           [] l = "topic" -> "existing"
                           [] l = "group" -> NoRadio]
    /\ display["category_select"] = "none"
    /\ display["new_category_input"] = "block"
    /\ display["topic_select"] = "block"
    /\ display["new_topic_input"] = "none"
    /\ display["group_select"] = FromCss

(***************************************************************************)
(* The selection cache on a rename.                                        *)
(***************************************************************************)
\* the cached names and the two selection labels
cacheVars == <<currentCategoryName, currentTopicName, categoryLabel, topicLabel>>

\* C21: on a successful rename the cached name and the selection label
\* become the new name if the row's id is the selected category (resp.
\* topic) at response time, and otherwise the cached names and both labels
\* stay; a group rename changes no selection state.
C21_RenameFollowsSelection ==
    [][\A i \in Slots, r \in Responses :
         IsSuccess(r) =>
           /\ CategoryUpdated(i, r) =>
                /\ UNCHANGED <<currentCategoryId, currentTopicId,
                               currentTopicName, topicLabel>>
                /\ IF pending[i].id = currentCategoryId
                   THEN /\ currentCategoryName' = pending[i].name
                        /\ categoryLabel' = Label("category", pending[i].name)
                   ELSE UNCHANGED cacheVars
           /\ TopicUpdated(i, r) =>
                /\ UNCHANGED <<currentCategoryId, currentTopicId,
                               currentCategoryName, categoryLabel>>
                /\ IF pending[i].id = currentTopicId
                   THEN /\ currentTopicName' = pending[i].name
                        /\ topicLabel' = Label("topic", pending[i].name)
                   ELSE UNCHANGED cacheVars
           /\ GroupUpdated(i, r) => UNCHANGED selectionVars
      ]_vars

\* the part of C21 the code keeps: renames of rows that are rendered when
\* the response arrives
C21_RenameOfRenderedRowFollowsSelection ==
    [][\A i \in Slots, r \in Responses :
         IsSuccess(r) =>
           /\ CategoryUpdated(i, r) =>
                /\ UNCHANGED <<currentCategoryId, currentTopicId,
                               currentTopicName, topicLabel>>
                /\ IF pending[i].id = currentCategoryId
                   THEN /\ currentCategoryName' = pending[i].name
                        /\ categoryLabel' = Label("category", pending[i].name)
                   ELSE UNCHANGED cacheVars
           /\ (TopicUpdated(i, r) /\ RowIndex(topicRows, pending[i].id) # 0) =>
                /\ UNCHANGED <<currentCategoryId, currentTopicId,
                               currentCategoryName, categoryLabel>>
                /\ IF pending[i].id = currentTopicId
                   THEN /\ currentTopicName' = pending[i].name
                        /\ topicLabel' = Label("topic", pending[i].name)
                   ELSE UNCHANGED cacheVars
           /\ GroupUpdated(i, r) => UNCHANGED selectionVars
      ]_vars

(***************************************************************************)
(* The view state of the rows.                                             *)
(***************************************************************************)
\* the view state and the displayed name of a row
Shown(r) == <<r.hidden, r.text>>

\* every row but row k of rows shows as before
OthersShownAsBefore(rows, rowsAfter, k) ==
    /\ DOMAIN rowsAfter = DOMAIN rows
    /\ \A j \in DOMAIN rows : j # k => Shown(rowsAfter[j]) = Shown(rows[j])

\* row k of rows went from the view state from to the view state to, keeping
\* its displayed name
Switched(rows, rowsAfter, k, from(_), to(_)) ==
    /\ from(rows[k])
    /\ to(rowsAfter[k])
    /\ rowsAfter[k].text = rows[k].text
    /\ OthersShownAsBefore(rows, rowsAfter, k)

\* an edit or cancel click leaves the rows of the other columns, the
\* requests in flight and the selection alone
LocalToggle(otherRows) ==
    /\ UNCHANGED otherRows
    /\ UNCHANGED <<pending, selectionVars, inputVars, reloaded>>

\* C22: every rendered row is viewing or editing, never a mixture, and is
\* rendered viewing; an edit or cancel click switches the view state of its
\* row only, issues no request and leaves every other row's view state and
\* displayed name unchanged.
C22_RowViewStateMachine ==
    /\ [](/\ \A c \in Categories : Viewing(categoryRows[c]) \/ Editing(categoryRows[c])
          /\ \A k \in 1..Len(topicRows) : Viewing(topicRows[k]) \/ Editing(topicRows[k])
          /\ \A k \in 1..Len(groupRows) : Viewing(groupRows[k]) \/ Editing(groupRows[k]))
    /\ [][/\ \A i \in Slots, c \in Categories : \A t \in TopicLists(c) :
               TopicsLoaded(i, t) =>
                 \A k \in 1..Len(topicRows') : Viewing(topicRows'[k])
          /\ \A i \in Slots, t \in FetchedTopicIds : \A g \in GroupLists(t) :
               GroupsLoaded(i, g) =>
                 \A k \in 1..Len(groupRows') : Viewing(groupRows'[k])
          /\ \A c \in Categories :
               /\ CategoryEditClick(c) =>
                    /\ Switched(categoryRows, categoryRows', c, Viewing, Editing)
                    /\ LocalToggle(<<topicRows, groupRows>>)
               /\ CategoryCancelClick(c) =>
                    /\ Switched(categoryRows, categoryRows', c, Editing, Viewing)
                    /\ LocalToggle(<<topicRows, groupRows>>)
          /\ \A k \in 1..Len(topicRows) :
               /\ TopicEditClick(k) =>
                    /\ Switched(topicRows, topicRows', k, Viewing, Editing)
                    /\ LocalToggle(<<categoryRows, groupRows>>)
               /\ TopicCancelClick(k) =>
                    /\ Switched(topicRows, topicRows', k, Editing, Viewing)
                    /\ LocalToggle(<<categoryRows, groupRows>>)
          /\ \A k \in 1..Len(groupRows) :
               /\ GroupEditClick(k) =>
                    /\ Switched(groupRows, groupRows', k, Viewing, Editing)
                    /\ LocalToggle(<<categoryRows, topicRows>>)
               /\ GroupCancelClick(k) =>
                    /\ Switched(groupRows, groupRows', k, Editing, Viewing)
                    /\ LocalToggle(<<categoryRows, topicRows>>)
         ]_vars

\* C22 witness: after five user events both category rows and a topic row
\* are editing at once and no request is in flight
C22_Witness ==
    /\ \A c \in Categories : Editing(categoryRows[c])
    /\ Len(topicRows) = 1
    /\ Editing(topicRows[1])
    /\ pending = << >>
    /\ events = 5

(***************************************************************************)
(* Category creation.                                                      *)
(***************************************************************************)
\* C23: handleCreateCategory with a non-empty name sends one create request;
\* once a response arrives, whatever its HTTP status and body, the page is
\* reloaded and no error is shown.
C23_CategoryCreateAlwaysReloads ==
    [][/\ (HandleCreateCategory /\ ~IsBlank(newCategory)) =>
            /\ pending' =
                 Append(pending, Request("category_create", Null, Trim(newCategory)))
            /\ ~reloaded'
            /\ alertMsg' = NoAlert
       /\ \A i \in Slots, r \in Responses :
            (CategoryCreated(i, r) /\ ~r.reject) =>
              /\ reloaded'
              /\ alertMsg' = NoAlert
              /\ ~uncaught'
              /\ UNCHANGED <<selectionVars, categoryRows, topicRows, groupRows,
                             inputVars>>
      ]_vars

\* C23 witness: the create request with the trimmed name typed into
\* #new-category is the one request in flight
C23_Witness ==
    /\ newCategory = PaddedB
    /\ pending = <<Request("category_create", Null, NameB)>>
    /\ ~reloaded

(***************************************************************************)
(* The selection cache and the displayed names.                            *)
(***************************************************************************)
\* the name a row displays
DisplayedName(r) == Trim(r.text)

\* the selected category's cached name and label are its row's name
CategoryCacheMatchesRow ==
    currentCategoryId # Null =>
      /\ currentCategoryName = DisplayedName(categoryRows[currentCategoryId])
      /\ categoryLabel = Label("category", DisplayedName(categoryRows[currentCategoryId]))

\* the selected topic's cached name and label are its row's name, if the
\* row is rendered
TopicCacheMatchesRow ==
    (currentTopicId # Null /\ RowIndex(topicRows, currentTopicId) # 0) =>
      LET row == topicRows[RowIndex(topicRows, currentTopicId)] IN
        /\ currentTopicName = DisplayedName(row)
        /\ topicLabel = Label("topic", DisplayedName(row))

\* C24: whenever a category (resp. topic) is selected and its row is
\* rendered, the cached selection name and the selection label equal the
\* row's displayed name, also when the row was renamed before it was
\* selected.
C24_SelectionCacheMatchesRow ==
    CategoryCacheMatchesRow /\ TopicCacheMatchesRow

\* C24, for categories alone: whenever a category is selected, the cached
\* category name and the category label equal its row's displayed name, also
\* when the row was renamed before its name was clicked.
C24_CategoryCacheMatchesRow == CategoryCacheMatchesRow

(***************************************************************************)
(* Re-fetches after a topic or group was created or deleted.               *)
(***************************************************************************)
\* the step answers pending[i] and fetches the list kind for id and name
Refetches(i, kind, id, name) ==
    pending' = Append(RemoveAt(pending, i), Request(kind, id, name))

\* a successful topic create or delete calls loadTopics for the category
\* current at response time, which resets the topic selection at once
TopicRefetchResetsTopic ==
    \A i \in Slots, r \in Responses :
      (IsSuccess(r) /\ (TopicCreated(i, r) \/ TopicDeleted(i, r))) =>
        /\ Refetches(i, "topics", currentCategoryId, currentCategoryName)
        /\ currentCategoryId # Null
        /\ UNCHANGED <<currentCategoryId, currentCategoryName>>
        /\ currentTopicId' = Null
        /\ currentTopicName' = EmptyStr

\* the completion of a topics fetch empties the group list, resets the
\* current-topic label and hides the group-create area
TopicsCompletionClearsGroups ==
    \A i \in Slots, c \in Categories : \A t \in TopicLists(c) :
      TopicsLoaded(i, t) =>
        /\ groupRows' = << >>
        /\ topicLabel' = Label("prompt", EmptyStr)
        /\ groupCreateHidden' = TRUE

\* C25: a successful topic create or delete calls loadTopics for the
\* category current at response time: the topic selection is reset at once,
\* whichever topic was selected, and the completion of the fetch empties the
\* group list, resets the current-topic label and hides the group-create
\* area.  A successful group create or delete fetches the groups of the
\* current topic again and leaves the topic selection unchanged.
C25_RefetchAfterCreateOrDelete ==
    [][/\ TopicRefetchResetsTopic
       /\ TopicsCompletionClearsGroups
       /\ \A i \in Slots, r \in Responses :
            (IsSuccess(r) /\ (GroupCreated(i, r) \/ GroupDeleted(i, r))) =>
              /\ UNCHANGED <<currentCategoryId, currentCategoryName,
                             currentTopicId, currentTopicName>>
              /\ currentTopicId # Null =>
                   Refetches(i, "groups", currentTopicId, currentTopicName)
      ]_vars

\* C25, with a topic current when the response arrives: the topic half as
\* above; a successful group create or delete then fetches the groups of
\* the current topic again and leaves the topic selection unchanged, and a
\* successful group delete with no topic current fetches nothing.
C25_RefetchForCurrentTopic ==
    [][/\ TopicRefetchResetsTopic
       /\ TopicsCompletionClearsGroups
       /\ \A i \in Slots, r \in Responses :
            /\ (/\ IsSuccess(r)
                /\ GroupCreated(i, r) \/ GroupDeleted(i, r)
                /\ currentTopicId # Null) =>
                 /\ UNCHANGED <<currentCategoryId, currentCategoryName,
                                currentTopicId, currentTopicName>>
                 /\ Refetches(i, "groups", currentTopicId, currentTopicName)
            /\ (IsSuccess(r) /\ GroupDeleted(i, r) /\ currentTopicId = Null) =>
                 /\ OnlyAnswered(i)
                 /\ UNCHANGED selectionVars
      ]_vars

\* a topic create request for category 1 is the one request in
\* flight while topic 10 is selected and its groups are rendered: its
\* success is the step that resets the selection of a topic other than the
\* created one
C25_Witness ==
    /\ pending = <<Request("topic_create", 1, NameB)>>
    /\ currentCategoryId = 1
    /\ currentTopicId = 10
    /\ topicLabel = Label("topic", currentTopicName)
    /\ ~groupCreateHidden
    /\ RowIds(topicRows) = <<10>>
    /\ RowIds(groupRows) = <<100>>

====
